---- MODULE Spec2Model ----
(***************************************************************************)
(* Model of the OpenADC scope session (con / dis / arm / capture) and of   *)
(* default_setup() of software/chipwhisperer/capture/scopes/OpenADC.py,    *)
(* and of the glitch campaign loop of                                      *)
(* hardware/victims/firmware/simpleserial-glitch.                          *)
(*                                                                         *)
(* The scope object is one record; every method is an operator from the    *)
(* object (and the outcome of the lower-level calls it makes) to the       *)
(* object after the call, what the call returned or raised, and the        *)
(* lower-level calls it issued, in order.                                  *)
(***************************************************************************)
EXTENDS Integers, Sequences, FiniteSets, TLC

VARIABLES
    scope,    \* the OpenADC object: its attributes (and the hardware arm latch)
    last,     \* the last call on the scope: op, inputs, result, value, lower-level calls
    faulted,  \* history: a lower-level error was raised in arm() or capture()
              \*          and no con() has returned True since
    pc,       \* campaign script: position in glitch_101.py
    space,    \* campaign script: the ranges and steps given to gc
    idx,      \* campaign script: number of settings taken from gc.glitch_values()
    results,  \* campaign script: gc's log of <<group, setting>> rows, in gc.add order
    val,      \* campaign script: the response read from the target in this trial
    ret,      \* campaign script: what scope.capture() returned in this trial
    resets,   \* campaign script: reboot_flush() calls made in this trial
    tlog,     \* campaign script: the calls made in this trial, in order
    link,     \* campaign script: the hardware and Target Link the campaign runs on
    setup,    \* default_setup(): position in the call, count, calls made so far
    mpsse     \* enable_MPSSE(): position in the call, reconnect attempts made

vars == <<scope, last, faulted, pc, space, idx, results, val, ret, resets, tlog, link,
          setup, mpsse>>
scriptVars == <<pc, space, idx, results, val, ret, resets, tlog, link, setup, mpsse>>

\* ------------------------------------------------------------------ bounds

\* con() builds a new OpenADCInterface_NAEUSBChip each time; instances are
\* numbered 1..MaxCon so that a replaced handle differs from the old one.
MaxCon == 2

\* The parameter spaces a campaign is run on: two axes (width, offset), each
\* range within 0..MaxHigh with a step in 1..MaxStep.
MaxHigh == 1
MaxStep == 2

\* The campaigns that run on hardware, where every call has several outcomes,
\* sweep at most MaxTrials settings.
MaxTrials == 2

\* default_setup() is called up to MaxSetups times, one call after the other.
MaxSetups == 2

\* A call of arm() is taken only while fewer than MaxPumps read pumps run.
MaxPumps == 2

\* ------------------------------------------------------------- the object

\* The scope.adc settings capture() reads (TriggerSettings, read back from the
\* device), with hwMax = adc.oa.hwMaxSegmentSamples.
DefaultAdc ==
    [samples |-> 5000, segments |-> 1, presamples |-> 0, decimate |-> 1,
     stream_mode |-> FALSE, hwMax |-> 8000]

\* The settings a caller may write to scope.adc between calls: one per branch
\* of capture()'s parameter checks.
AdcConfigs ==
    { DefaultAdc,
      [DefaultAdc EXCEPT !.stream_mode = TRUE],
      [DefaultAdc EXCEPT !.segments = 2, !.samples = 3000],
      [DefaultAdc EXCEPT !.segments = 2, !.presamples = 1],
      [DefaultAdc EXCEPT !.segments = 2, !.decimate = 2, !.samples = 3000],
      [DefaultAdc EXCEPT !.segments = 2] }

\* The settings default_setup() writes, as the device reports them after the
\* FPGA reset of a connect, before anything is written: "power_up" stands for the
\* value the device starts with, whatever it is.  Every value is kept as the
\* text of the Python literal.
PowerUpConf ==
    [ gain_db      |-> "power_up",   \* scope.gain.db
      adc_offset   |-> "power_up",   \* scope.adc.offset
      basic_mode   |-> "power_up",   \* scope.adc.basic_mode
      clkgen_freq  |-> "power_up",   \* scope.clock.clkgen_freq
      triggers     |-> "power_up",   \* scope.trigger.triggers
      tio1         |-> "power_up",   \* scope.io.tio1
      tio2         |-> "power_up",   \* scope.io.tio2
      hs2          |-> "power_up",   \* scope.io.hs2
      cdc_settings |-> "power_up",   \* scope.io.cdc_settings
      adc_src      |-> "power_up",   \* scope.clock.adc_src       (not on Husky)
      clkgen_src   |-> "power_up",   \* scope.clock.clkgen_src    (Husky)
      adc_mul      |-> "power_up",   \* scope.clock.adc_mul       (Husky)
      test_mode    |-> "power_up",   \* scope.adc.test_mode       (Husky)
      ADS4128_mode |-> "power_up",   \* scope.ADS4128.mode        (Husky)
      glitch_en    |-> "power_up",   \* scope.glitch.enabled      (Husky)
      LA_en        |-> "power_up" ]  \* scope.LA.enabled          (Husky)

\* scope.glitch.width and scope.glitch.offset before the script writes them.
PowerUpGlitch == [width |-> -1, offset |-> -1]

\* OpenADC.__init__: attributes it assigns; scopetype, sc, adc and clock are
\* not assigned (0 = the attribute does not exist yet).
NewScope ==
    [ is_connected     |-> FALSE,
      connectStatus    |-> TRUE,
      advancedSettings |-> 0,      \* 0 = None, k = built by the k-th con()
      scopetype        |-> 0,
      ser              |-> FALSE,  \* scopetype's transport is open
      sc               |-> 0,
      adc              |-> 0,
      adc_cfg          |-> DefaultAdc, \* read only once scope.adc exists
      clock            |-> 0,
      is_husky         |-> FALSE,
      data_points      |-> 0,      \* len(self.data_points); [] after __init__
      armed            |-> FALSE,  \* sc.arm() issued and not yet consumed by sc.capture()
      pumps            |-> 0,      \* read pumps of self.sc started and not joined
      conf             |-> PowerUpConf, \* the settings default_setup() writes, as read back
      glitch           |-> PowerUpGlitch, \* scope.glitch.width, scope.glitch.offset
      nrst             |-> "power_up" ]   \* scope.io.nrst

\* What a method call did: the object after it, "return" or "raise", the value
\* returned or the error raised, and the lower-level calls issued, in order.
Outcome(s, res, v, hw) == [s |-> s, res |-> res, val |-> v, hw |-> hw]

\* The prefix of seq up to and including its first element equal to x
\* (all of seq if x is not in it).
RECURSIVE UpTo(_, _)
UpTo(seq, x) ==
    IF seq = <<>> THEN <<>>
    ELSE IF Head(seq) = x THEN <<x>>
    ELSE <<Head(seq)>> \o UpTo(Tail(seq), x)

\* ------------------------------------------------------------------- dis()

\* dis(): usbdev is the value of the two hasattr tests (lower-level state); the
\* assignment to sc.usbcon they guard needs self.sc to exist.
dis(s, usbdev) ==
    IF s.scopetype = 0
    THEN Outcome(s, "raise", "AttributeError", <<>>)
    ELSE LET s1 == [s EXCEPT !.ser = FALSE, !.advancedSettings = 0]
         IN  IF usbdev /\ s.sc = 0
             THEN Outcome(s1, "raise", "AttributeError", <<"scopetype.dis">>)
             ELSE Outcome([s1 EXCEPT !.is_connected = FALSE,
                                     !.connectStatus = FALSE],
                          "return", "True", <<"scopetype.dis">>)

\* ------------------------------------------------------------------- con()

\* The lower-level calls of con(), in order; each one may raise.
ConSteps ==
    <<"scopetype.con", "OpenADCInterface", "_setReset", "ChipWhispererExtra",
      "ClockSettings">>

\* What _getCWType() may report: a Husky or not (Lite, Pro and rev2 differ only in
\* attributes no method below reads).
CwTypes == {"cwlite", "cwhusky"}

\* con(): k numbers the OpenADCInterface_NAEUSBChip it builds, cwtype is what
\* _getCWType() reports, fail is the lower-level call that raises ("none": none).
\* There is no test of _is_connected: every attribute is assigned anew, and
\* _is_connected is written only on the last lines.  Building OpenADCInterface
\* replaces self.sc (pumps counts the read pumps of the new object) and
\* resets the FPGA, which drops a pending arm; after a reconnect all settings
\* are at their defaults again (reload_fpga's docstring, line 128).
con(s, k, cwtype, fail) ==
    LET s1 == [s  EXCEPT !.scopetype = k, !.ser = FALSE]
        s2 == [s1 EXCEPT !.ser = TRUE]
        s3 == [s2 EXCEPT !.sc = k, !.armed = FALSE, !.pumps = 0,
                         !.conf = PowerUpConf,
                         !.glitch = PowerUpGlitch, !.nrst = "power_up"]
        s4 == [s3 EXCEPT !.adc = k, !.adc_cfg = DefaultAdc]
        s5 == [s4 EXCEPT !.advancedSettings = k]
        s6 == [s5 EXCEPT !.clock = k]
        s7 == [s6 EXCEPT !.is_husky = IF cwtype = "cwhusky" THEN TRUE ELSE @,
                         !.is_connected = TRUE,
                         !.connectStatus = TRUE]
        hw == UpTo(ConSteps, fail)
    IN  CASE fail = "scopetype.con"      -> Outcome(s1, "raise", fail, hw)
          [] fail = "OpenADCInterface"   -> Outcome(s2, "raise", fail, hw)
          [] fail = "_setReset"          -> Outcome(s3, "raise", fail, hw)
          [] fail = "ChipWhispererExtra" -> Outcome(s4, "raise", fail, hw)
          [] fail = "ClockSettings"      -> Outcome(s5, "raise", fail, hw)
          [] OTHER                       -> Outcome(s7, "return", "True", hw)

\* ------------------------------------------------------------------- arm()

\* The lower-level calls of arm(), in order; _update_caches only on Husky.
ArmSteps(s) ==
    <<"armPreScope", "sc.arm", "armPostScope">>
    \o (IF s.is_husky THEN <<"_update_caches">> ELSE <<>>)
    \o <<"startCaptureThread">>

\* sc.startCaptureThread(), once it has returned: one more read pump runs.
startCaptureThread(s) == [s EXCEPT !.pumps = @ + 1]

\* sc.capture(), once it has returned: the read pump has been joined.
JoinPump(s) == [s EXCEPT !.pumps = 0]

\* arm() without its connection check.
arm_unchecked(s, fail, usbdev) ==
    LET hw == UpTo(ArmSteps(s), fail)
    IN  IF fail = "none"
        THEN Outcome(startCaptureThread([s EXCEPT !.armed = TRUE]), "return", "None", hw)
        ELSE Outcome(dis(s, usbdev).s, "raise", fail, hw \o <<"scopetype.dis">>)

\* arm() whose except clause re-raises without disconnecting.
arm_no_dis(s, fail, usbdev) ==
    IF s.is_connected = FALSE
    THEN Outcome(s, "raise", "NotConnected", <<>>)
    ELSE IF fail = "none"
    THEN Outcome(startCaptureThread([s EXCEPT !.armed = TRUE]), "return", "None", ArmSteps(s))
    ELSE Outcome(s, "raise", fail, UpTo(ArmSteps(s), fail))

\* arm(): fail is the lower-level call that raises ("none": none); usbdev is
\* the value of the hasattr tests of the dis() in the except clause.
arm(s, fail, usbdev) ==
    IF s.is_connected = FALSE
    THEN Outcome(s, "raise", "NotConnected", <<>>)
    ELSE LET hw == UpTo(ArmSteps(s), fail)
             s1 == IF fail \in {"armPreScope", "sc.arm"} THEN s
                   ELSE [s EXCEPT !.armed = TRUE]
         IN  IF fail = "none"
             THEN Outcome(startCaptureThread(s1), "return", "None", hw)
             ELSE LET d == dis(s1, usbdev)
                  IN  Outcome(d.s, "raise", IF d.res = "raise" THEN d.val ELSE fail,
                              hw \o d.hw)

\* --------------------------------------------------------------- capture()

\* What sc.capture() does: reports a timeout, reports none, or raises.
CaptureResults == {"timeout", "done", "raise"}

\* What sc.readData(num_points) does: returns fewer points than asked, as many,
\* or more, or the read fails (readData raises, or returns no buffer and
\* len() raises at the debug message).
ReadResults == {"short", "exact", "long", "raise"}

ReadLen(num_points, rd) ==
    CASE rd = "short" -> num_points - 1
      [] rd = "long"  -> num_points + 1
      [] OTHER        -> num_points

\* _capture_read(num_points)
capture_read(s, num_points, rd) ==
    IF rd = "raise"
    THEN Outcome(s, "raise", "sc.readData", <<"sc.readData">>)
    ELSE LET s1 == [s EXCEPT !.data_points = ReadLen(num_points, rd)]
         IN  Outcome(s1, "return",
                     IF s1.data_points # num_points THEN "True" ELSE "False",
                     <<"sc.readData">>)

\* The number of points asked for, forgetting Husky's segments.
CaptureSamples_per_segment(s) == s.adc_cfg.samples

\* The number of points capture() asks _capture_read for.
CaptureSamples(s) ==
    IF s.is_husky THEN s.adc_cfg.samples * s.adc_cfg.segments ELSE s.adc_cfg.samples

\* capture() treating a timeout as an arm() failure: it disconnects.
capture_timeout_dis(s, a, rd) ==
    IF s.adc = 0 \/ s.clock = 0 \/ a = "raise" \/ rd = "raise"
    THEN Outcome(s, "raise", "AttributeError", <<>>)
    ELSE LET b == capture_read(JoinPump([s EXCEPT !.armed = FALSE]), CaptureSamples(s), rd)
             t == a = "timeout" \/ b.val = "True"
         IN  Outcome(IF t THEN dis(b.s, TRUE).s ELSE b.s, "return",
                     IF t THEN "True" ELSE "False", <<"sc.capture">> \o b.hw)

\* capture(): a is what sc.capture() does, rd what sc.readData() does.
capture(s, a, rd) ==
    LET c == s.adc_cfg IN
    IF s.is_husky /\ c.segments > 1 /\ c.presamples # 0 /\ c.samples % 3 # 0
    THEN Outcome(s, "raise", "ValueError", <<>>)
    ELSE IF s.is_husky /\ c.decimate > 1 /\ (c.presamples # 0 \/ c.segments > 1)
    THEN Outcome(s, "raise", "ValueError", <<>>)
    ELSE IF s.is_husky /\ c.segments > 1 /\ c.samples * c.segments > c.hwMax
            /\ ~c.stream_mode
    THEN Outcome(s, "raise", "ValueError", <<>>)
    ELSE IF s.adc = 0
    THEN Outcome(s, "raise", "AttributeError", <<>>)
    ELSE IF ~(c.stream_mode /\ ~s.is_husky) /\ s.clock = 0
    THEN Outcome(s, "raise", "AttributeError", <<>>)
    ELSE IF a = "raise"
    THEN Outcome(s, "raise", "sc.capture", <<"sc.capture">>)
    ELSE LET s1 == JoinPump([s EXCEPT !.armed = FALSE])
             b  == capture_read(s1, CaptureSamples(s1), rd)
         IN  IF b.res = "raise"
             THEN Outcome(b.s, "raise", b.val, <<"sc.capture">> \o b.hw)
             ELSE Outcome(b.s, "return",
                          IF a = "timeout" \/ b.val = "True" THEN "True" ELSE "False",
                          <<"sc.capture">> \o b.hw)

\* get_last_trace(as_int=False): the buffer of the last read (its length).
get_last_trace(s) == s.data_points

\* ------------------------------------------------ calls on the scope object

\* The record of a call: its inputs (what the lower level did) and its Outcome.
Called(op, in, o) == [op |-> op, in |-> in, res |-> o.res, val |-> o.val, hw |-> o.hw]

\* The lower-level errors: everything raised but arm()'s own "not connected",
\* capture()'s parameter checks and a missing attribute.
LowLevelError(c) ==
    c.res = "raise" /\ c.val \notin {"NotConnected", "ValueError", "AttributeError"}

ConFails == {"none"} \cup {ConSteps[i] : i \in 1..Len(ConSteps)}
ArmFails(s) == {"none"} \cup {ArmSteps(s)[i] : i \in 1..Len(ArmSteps(s))}

\* The inputs that can tell: which lower-level call of arm() raises matters
\* only when arm() gets to them, the hasattr tests of dis() only when self.sc
\* does not exist, the results of sc.capture() and sc.readData() only when
\* capture() gets to them, and the read only when sc.capture() returned.
ArmInputs(s) == IF s.is_connected THEN ArmFails(s) ELSE {"none"}
UsbDevs(s) == IF s.sc = 0 THEN BOOLEAN ELSE {TRUE}
CaptureInputs(s) ==
    IF capture(s, "done", "exact").hw = <<>>
    THEN {<<"done", "exact">>}
    ELSE {<<"raise", "exact">>} \cup ({"timeout", "done"} \X ReadResults)

\* The empty campaign: no script is running.
NoRange == [low |-> 0, high |-> 0, step |-> 1]
NoSpace == [width |-> NoRange, offset |-> NoRange]

\* Every setting of the scope as read back after a default_setup() call, and
\* whether that call reconnected the scope.
ReadBack(s, recon) ==
    [conf |-> s.conf, adc |-> s.adc_cfg, glitch |-> s.glitch, nrst |-> s.nrst,
     recon |-> recon]

\* No enable_MPSSE() call is running or has been made.
NoMpsse ==
    [ pc        |-> "idle",    \* "idle", "call", "loop", "setup", "returned" or "raised"
      i         |-> 0,         \* con() calls made by the for loop
      connected |-> FALSE,     \* one of them returned (the loop took its break)
      err       |-> "none" ]   \* the error the call raised

\* No default_setup() call is running or has been made.
NoSetup ==
    [ pc     |-> "idle",       \* "idle", "loop" (at the while test) or "raised"
      count  |-> 0,            \* the local count
      resets |-> 0,            \* clock.reset_dcms() calls made by the call
      recon  |-> FALSE,        \* the call has reconnected the scope
      calls  |-> 0,            \* calls that returned, one after the other
      first  |-> <<>>,         \* what the first of them left (<<>>: not yet)
      second |-> <<>>,         \* what the second left
      err    |-> "none" ]      \* what the call raised

Init ==
    /\ scope = NewScope
    /\ last = [op |-> "__init__", in |-> <<>>, res |-> "return", val |-> "None",
               hw |-> <<>>]
    /\ faulted = FALSE
    /\ pc = "idle"
    /\ space = NoSpace
    /\ idx = 0
    /\ results = <<>>
    /\ val = "none"
    /\ ret = "none"
    /\ resets = 0
    /\ tlog = <<>>
    /\ link = "hardware"
    /\ setup = NoSetup
    /\ mpsse = NoMpsse

\* scope.con()
DoCon(cwtype, fail) ==
    LET o == con(scope, scope.scopetype + 1, cwtype, fail)
    IN  /\ scope.scopetype < MaxCon
        /\ scope' = o.s
        /\ last' = Called("con", [cwtype |-> cwtype, fail |-> fail], o)
        /\ faulted' = IF o.res = "return" THEN FALSE ELSE faulted

\* scope.dis()
DoDis(usbdev) ==
    LET o == dis(scope, usbdev)
    IN  /\ scope' = o.s
        /\ last' = Called("dis", <<>>, o)
        /\ UNCHANGED faulted

\* scope.arm()
DoArm(fail, usbdev) ==
    LET o == arm(scope, fail, usbdev)
    IN  /\ scope.pumps < MaxPumps
        /\ scope' = o.s
        /\ last' = Called("arm", [fail |-> fail], o)
        /\ faulted' = (faulted \/ LowLevelError(o))

\* scope.capture()
DoCapture(a, rd) ==
    LET o == capture(scope, a, rd)
    IN  /\ scope' = o.s
        /\ last' = Called("capture", [a |-> a, rd |-> rd], o)
        /\ faulted' = (faulted \/ LowLevelError(o))

Con ==
    /\ \E cwtype \in CwTypes, fail \in ConFails : DoCon(cwtype, fail)
    /\ UNCHANGED scriptVars

Dis ==
    /\ \E usbdev \in UsbDevs(scope) : DoDis(usbdev)
    /\ UNCHANGED scriptVars

Arm ==
    /\ \E fail \in ArmInputs(scope), usbdev \in UsbDevs(scope) : DoArm(fail, usbdev)
    /\ UNCHANGED scriptVars

Capture ==
    /\ \E in \in CaptureInputs(scope) : DoCapture(in[1], in[2])
    /\ UNCHANGED scriptVars

\* scope.adc.<setting> = value, between calls
SetAdc ==
    /\ scope.adc # 0
    /\ \E c \in AdcConfigs :
          /\ scope' = [scope EXCEPT !.adc_cfg = c]
          /\ last' = [op |-> "adc", in |-> c, res |-> "return", val |-> "None",
                      hw |-> <<>>]
    /\ UNCHANGED <<faulted, scriptVars>>

Next == Con \/ Dis \/ Arm \/ Capture \/ SetAdc

Spec == Init /\ [][Next]_vars

\* ---------------------------------------------------------- default_setup()

\* The settings default_setup() writes first, on every device.
DefaultSettings(c) ==
    [c EXCEPT !.gain_db = "25", !.adc_offset = "0", !.basic_mode = "rising_edge",
              !.clkgen_freq = "7.37e6", !.triggers = "tio4", !.tio1 = "serial_rx",
              !.tio2 = "serial_tx", !.hs2 = "clkgen", !.cdc_settings = "0"]

\* Husky: the clock settings written before the lock loop, and the settings
\* written after it.
HuskyClock(c) == [c EXCEPT !.clkgen_src = "system", !.clkgen_freq = "7.37e6", !.adc_mul = "4"]
HuskyTail(c) ==
    [c EXCEPT !.test_mode = "False", !.ADS4128_mode = "normal", !.glitch_en = "False",
              !.LA_en = "False"]

\* Not Husky: the clock source written before the lock loop.
AdcSrc(c) == [c EXCEPT !.adc_src = "clkgen_x4"]

\* Not Husky: the settings written again after the reconnect of the fifth
\* failed lock.
ReApplied(c) ==
    [c EXCEPT !.gain_db = "25", !.adc_offset = "0", !.basic_mode = "rising_edge",
              !.clkgen_freq = "7.37e6", !.triggers = "tio4", !.adc_src = "clkgen_x4",
              !.tio1 = "serial_rx", !.tio2 = "serial_tx", !.hs2 = "clkgen"]

\* The errors default_setup() raises itself: "Could not lock PLL" on Husky,
\* "Could not lock DCM" otherwise.
LockErrors == {"OSError: Could not lock PLL", "OSError: Could not lock DCM"}

GiveUp_late(count) == count > 11

\* if count > 10: raise OSError(...)
GiveUp(count) == count > 10

\* A scope that was connected, and whose settings a caller may have written.
SetupInit ==
    /\ \E cwtype \in CwTypes, written \in BOOLEAN :
          LET o == con(NewScope, 1, cwtype, "none")
          IN  /\ scope = IF written
                         THEN [o.s EXCEPT !.conf.gain_db = "40", !.conf.cdc_settings = "1",
                                          !.conf.hs2 = "None",
                                          !.conf.LA_en = IF cwtype = "cwhusky" THEN "True" ELSE @,
                                          !.adc_cfg.presamples = 1,
                                          !.glitch = [width |-> 8, offset |-> 3]]
                         ELSE o.s
              /\ last = Called("con", [cwtype |-> cwtype, fail |-> "none"], o)
    /\ faulted = FALSE
    /\ pc = "idle"
    /\ space = NoSpace
    /\ idx = 0
    /\ results = <<>>
    /\ val = "none"
    /\ ret = "none"
    /\ resets = 0
    /\ tlog = <<>>
    /\ link = "hardware"
    /\ setup = NoSetup
    /\ mpsse = NoMpsse

\* What default_setup() leaves when it returns: the settings read back are
\* kept for the first two calls.
Returned(su, s) ==
    [su EXCEPT !.pc = "idle", !.calls = @ + 1,
               !.first  = IF su.calls = 0 THEN ReadBack(s, su.recon) ELSE @,
               !.second = IF su.calls = 1 THEN ReadBack(s, su.recon) ELSE @]

\* default_setup() up to the while test: the settings are written, count = 0.
SetupCall ==
    /\ setup.pc = "idle"
    /\ setup.calls < MaxSetups
    /\ scope' = [scope EXCEPT !.adc_cfg.samples = 5000,
                              !.conf = IF scope.is_husky
                                       THEN HuskyClock(DefaultSettings(@))
                                       ELSE AdcSrc(DefaultSettings(@))]
    /\ setup' = [setup EXCEPT !.pc = "loop", !.count = 0, !.resets = 0, !.recon = FALSE]
    /\ UNCHANGED <<last, faulted, pc, space, idx, results, val, ret, resets, tlog, link, mpsse>>

\* while not self.clock.clkgen_locked: the clock reports locked.  The loop
\* ends; on Husky four more settings are written; default_setup() returns.
ClockLocked ==
    /\ setup.pc = "loop"
    /\ scope' = IF scope.is_husky THEN [scope EXCEPT !.conf = HuskyTail(@)] ELSE scope
    /\ setup' = Returned(setup, scope')
    /\ UNCHANGED <<last, faulted, pc, space, idx, results, val, ret, resets, tlog, link, mpsse>>

\* Husky, the clock reports not locked: count += 1, reset_dcms(), and the
\* error when count > 10.
HuskyRetry ==
    /\ setup.pc = "loop"
    /\ scope.is_husky
    /\ setup' = [setup EXCEPT !.count = @ + 1, !.resets = @ + 1,
                              !.pc  = IF GiveUp(setup.count + 1) THEN "raised" ELSE "loop",
                              !.err = IF GiveUp(setup.count + 1)
                                      THEN "OSError: Could not lock PLL" ELSE @]
    /\ UNCHANGED <<scope, last, faulted, pc, space, idx, results, val, ret, resets, tlog, link, mpsse>>

\* Not Husky, the clock reports not locked: reset_dcms(), count += 1; when
\* count == 5, dis(), con() and the settings written again (an error of dis()
\* or con() ends default_setup()); the error when count > 10.
Retry ==
    /\ setup.pc = "loop"
    /\ ~scope.is_husky
    /\ LET su == [setup EXCEPT !.count = @ + 1, !.resets = @ + 1]
       IN  IF su.count = 5
           THEN \E usbdev \in UsbDevs(scope), fail \in ConFails :
                   LET d == dis(scope, usbdev)
                       c == con(d.s, d.s.scopetype + 1, "cwlite", fail)
                   IN  IF d.res = "raise"
                       THEN /\ scope' = d.s
                            /\ last' = Called("dis", <<>>, d)
                            /\ setup' = [su EXCEPT !.pc = "raised", !.err = d.val]
                       ELSE /\ last' = Called("con", [cwtype |-> "cwlite", fail |-> fail], c)
                            /\ IF c.res = "raise"
                               THEN /\ scope' = c.s
                                    /\ setup' = [su EXCEPT !.pc = "raised", !.err = c.val]
                               ELSE /\ scope' = [c.s EXCEPT !.adc_cfg.samples = 5000,
                                                            !.conf = ReApplied(@)]
                                    /\ setup' = [su EXCEPT !.recon = TRUE]
           ELSE /\ setup' = [su EXCEPT !.pc  = IF GiveUp(su.count) THEN "raised" ELSE "loop",
                                       !.err = IF GiveUp(su.count)
                                               THEN "OSError: Could not lock DCM" ELSE @]
                /\ UNCHANGED <<scope, last>>
    /\ UNCHANGED <<faulted, pc, space, idx, results, val, ret, resets, tlog, link, mpsse>>

\* One pass of the while loop.
Poll == ClockLocked \/ HuskyRetry \/ Retry

SetupNext == SetupCall \/ Poll

\* The loop waits for nothing: a call that is in it takes its next pass.
SetupSpec == SetupInit /\ [][SetupNext]_vars /\ WF_vars(Poll)

\* ---------------------------------------------------------- enable_MPSSE()

\* for i in range(10)
MpsseTries == 10

\* The for loop taking one pass more than range(10) has.
MoreTries_eleven(i) == i < MpsseTries + 1

\* The for loop has another pass to make after i passes.
MoreTries(i) == i < MpsseTries

\* A connected scope on which enable_MPSSE(True) is called.
MpsseInit ==
    /\ \E cwtype \in CwTypes :
          LET o == con(NewScope, 1, cwtype, "none")
          IN  /\ scope = o.s
              /\ last = Called("con", [cwtype |-> cwtype, fail |-> "none"], o)
    /\ faulted = FALSE
    /\ pc = "idle"
    /\ space = NoSpace
    /\ idx = 0
    /\ results = <<>>
    /\ val = "none"
    /\ ret = "none"
    /\ resets = 0
    /\ tlog = <<>>
    /\ link = "hardware"
    /\ setup = NoSetup
    /\ mpsse = [NoMpsse EXCEPT !.pc = "call"]

\* sn = self.sn; self.io.cwe.setAVRISPMode(1); super().enable_MPSSE(enable):
\* either call may raise.  On a Husky the method returns here.
MpsseCall ==
    /\ mpsse.pc = "call"
    /\ \E ok \in BOOLEAN :
          mpsse' = IF ~ok THEN [mpsse EXCEPT !.pc = "raised", !.err = "lower-level"]
                   ELSE IF scope.is_husky THEN [mpsse EXCEPT !.pc = "returned"]
                   ELSE [mpsse EXCEPT !.pc = "loop"]
    /\ UNCHANGED <<scope, last, faulted, pc, space, idx, results, val, ret, resets, tlog,
                   link, setup>>

\* One pass of the for loop: try: self.con(sn=sn); break / except: pass
MpsseReconnect ==
    /\ mpsse.pc = "loop"
    /\ MoreTries(mpsse.i)
    /\ \E fail \in ConFails :
          LET c == con(scope, scope.scopetype + 1, "cwlite", fail)
          IN  /\ scope' = c.s
              /\ last' = Called("con", [cwtype |-> "cwlite", fail |-> fail], c)
              /\ mpsse' = IF c.res = "return"
                          THEN [mpsse EXCEPT !.i = @ + 1, !.connected = TRUE, !.pc = "setup"]
                          ELSE [mpsse EXCEPT !.i = @ + 1]
    /\ UNCHANGED <<faulted, pc, space, idx, results, val, ret, resets, tlog, link, setup>>

\* The for loop ends without a break: no con() returned.
MpsseLoopEnd ==
    /\ mpsse.pc = "loop"
    /\ ~MoreTries(mpsse.i)
    /\ mpsse' = [mpsse EXCEPT !.pc = "setup"]
    /\ UNCHANGED <<scope, last, faulted, pc, space, idx, results, val, ret, resets, tlog,
                   link, setup>>

\* try: self.default_setup(): the steps of the call.
MpsseSetup ==
    /\ mpsse.pc = "setup"
    /\ setup.calls = 0
    /\ SetupCall \/ ClockLocked \/ Retry

\* except: raise IOError(...), whatever default_setup() raised.  On a session
\* that no con() of the loop connected, its first write may raise.
MpsseSetupFailed ==
    /\ mpsse.pc = "setup"
    /\ \/ setup.pc = "raised"
       \/ setup.pc = "idle" /\ setup.calls = 0 /\ ~mpsse.connected
    /\ mpsse' = [mpsse EXCEPT !.pc = "raised", !.err = "IOError"]
    /\ UNCHANGED <<scope, last, faulted, pc, space, idx, results, val, ret, resets, tlog,
                   link, setup>>

\* default_setup() returned: self.io.cwe.setAVRISPMode(1), which may raise,
\* then self.dis().
MpsseFinish ==
    /\ mpsse.pc = "setup"
    /\ setup.pc = "idle" /\ setup.calls = 1
    /\ \E ok \in BOOLEAN, usbdev \in UsbDevs(scope) :
          LET d == dis(scope, usbdev)
          IN  IF ~ok
              THEN /\ mpsse' = [mpsse EXCEPT !.pc = "raised", !.err = "lower-level"]
                   /\ UNCHANGED <<scope, last>>
              ELSE /\ scope' = d.s
                   /\ last' = Called("dis", <<>>, d)
                   /\ mpsse' = IF d.res = "raise"
                               THEN [mpsse EXCEPT !.pc = "raised", !.err = d.val]
                               ELSE [mpsse EXCEPT !.pc = "returned"]
    /\ UNCHANGED <<faulted, pc, space, idx, results, val, ret, resets, tlog, link, setup>>

MpsseNext ==
    \/ MpsseCall \/ MpsseReconnect \/ MpsseLoopEnd
    \/ MpsseSetup \/ MpsseSetupFailed \/ MpsseFinish

\* The method waits for nothing but its sleeps: it takes its next step.
MpsseSpec == MpsseInit /\ [][MpsseNext]_vars /\ WF_vars(MpsseNext)

\* ------------------------------------------------------ the sweep generator

Ranges ==
    {r \in [low : 0..MaxHigh, high : 0..MaxHigh, step : 1..MaxStep] : r.low <= r.high}

Spaces == [width : Ranges, offset : Ranges]

\* The ranges and steps glitch_101.py gives to gc.
ScriptSpace ==
    [width  |-> [low |-> 0, high |-> 20, step |-> 8],
     offset |-> [low |-> 0, high |-> 10, step |-> 1]]

AxisValues_exclusive(r) ==
    [i \in 1..((r.high - r.low) \div r.step) |-> r.low + (i - 1) * r.step]

\* The values of one axis: low, low + step, ... up to high.
AxisValues(r) == [i \in 1..(((r.high - r.low) \div r.step) + 1) |-> r.low + (i - 1) * r.step]

\* gc.glitch_values(): every (width, offset) of the space, the first axis
\* varying slowest.
glitch_values(sp) ==
    LET w == AxisValues(sp.width)
        o == AxisValues(sp.offset)
    IN  [i \in 1..(Len(w) * Len(o)) |->
            <<w[((i - 1) \div Len(o)) + 1], o[((i - 1) % Len(o)) + 1]>>]

\* ------------------------------------------------------ the campaign script

\* What the campaign runs on.  "hardware": every call may do whatever the
\* device and the target can do.  The others are a scope that never times out
\* with a fake Target Link: one that answers 2500 on every trial, one that
\* answers another payload at (width 8, offset 3) only, one that times out on
\* every trial with offset > 5.
Fakes == {"fake_2500", "fake_one_other", "fake_timeout"}
Links == {"hardware"} \cup Fakes

\* The inputs of one call: all of S on hardware, the nominal one with a fake.
HwInputs(S, nominal) == IF link = "hardware" THEN S ELSE {nominal}

\* What target.simpleserial_read_witherrors() returns: valid False (so does a
\* read that timed out), valid with payload None, valid with a payload of
\* another length than the four bytes asked for, valid with the payload 2500 or
\* with another four-byte payload.
Responses == {"invalid", "no_payload", "bad_length", "2500", "other"}

\* The answer of a fake Target Link to the trial of one setting.
FakeResponse(l, setting) ==
    CASE l = "fake_2500"      -> "2500"
      [] l = "fake_one_other" -> IF setting = <<8, 3>> THEN "other" ELSE "2500"
      [] l = "fake_timeout"   -> IF setting[2] > 5 THEN "invalid" ELSE "2500"

\* gc.add(group, setting)
gc_add(log, group, setting) == Append(log, <<group, setting>>)

glitch_setting == glitch_values(space)[idx]

reboot_flush_release_last(s) ==
    Outcome([s EXCEPT !.nrst = "high_z"], "return", "None",
            <<"io.nrst=False", "target.flush", "io.nrst=high_z">>)

\* reboot_flush(): scope.io.nrst = False, scope.io.nrst = "high_z",
\* target.flush(), with a sleep after each write of nrst.
reboot_flush(s) ==
    Outcome([s EXCEPT !.nrst = "high_z"], "return", "None",
            <<"io.nrst=False", "io.nrst=high_z", "target.flush">>)

\* The calls of gc.add in the trial log.
AddCall(group) ==
    CASE group = "reset"   -> "gc.add reset"
      [] group = "success" -> "gc.add success"
      [] group = "normal"  -> "gc.add normal"

\* utils.py and glitch_101.py up to the loop: the scope is connected and set
\* up, the target has been reset, gc holds the ranges and no result.
CampaignInit ==
    /\ \E cwtype \in CwTypes :
          LET o == con(NewScope, 1, cwtype, "none")
              c == DefaultSettings(o.s.conf)
              d == [o.s EXCEPT !.conf = IF cwtype = "cwhusky"
                                        THEN HuskyTail(HuskyClock(c)) ELSE AdcSrc(c)]
          IN  /\ scope = reboot_flush(d).s
              /\ last = Called("con", [cwtype |-> cwtype, fail |-> "none"], o)
    /\ faulted = FALSE
    /\ pc = "for"
    /\ link \in Links
    /\ IF link = "hardware"
       THEN space \in {sp \in Spaces : Len(glitch_values(sp)) <= MaxTrials}
       ELSE space \in Spaces \cup {ScriptSpace}
    /\ idx = 0
    /\ results = <<>>
    /\ val = "none"
    /\ ret = "none"
    /\ resets = 0
    /\ tlog = <<>>
    /\ setup = NoSetup
    /\ mpsse = NoMpsse

\* for glitch_setting in gc.glitch_values(): the next setting is written to
\* scope.glitch, or the loop ends.
ForNext ==
    /\ pc = "for"
    /\ IF idx < Len(glitch_values(space))
       THEN /\ idx' = idx + 1
            /\ pc' = "precheck"
            /\ scope' = [scope EXCEPT !.glitch =
                            [width  |-> glitch_values(space)[idx'][1],
                             offset |-> glitch_values(space)[idx'][2]]]
            /\ resets' = 0
            /\ val' = "none"
            /\ ret' = "none"
            /\ tlog' = <<"scope.glitch">>
       ELSE /\ pc' = "disarm"
            /\ UNCHANGED <<scope, idx, resets, val, ret, tlog>>
    /\ UNCHANGED <<last, faulted, space, results, link, setup, mpsse>>

\* if scope.adc.state: the trigger line is still high.  The branch has no
\* continue: the trial goes on to scope.arm() either way.
PreCheck ==
    /\ pc = "precheck"
    /\ \E state \in HwInputs(BOOLEAN, FALSE) :
          IF state
          THEN LET o == reboot_flush(scope)
               IN  /\ results' = gc_add(results, "reset", <<scope.glitch.width, scope.glitch.offset>>)
                   /\ scope' = o.s
                   /\ resets' = resets + 1
                   /\ tlog' = tlog \o <<"adc.state", AddCall("reset")>> \o o.hw
          ELSE /\ tlog' = Append(tlog, "adc.state")
               /\ UNCHANGED <<results, scope, resets>>
    /\ pc' = "arm"
    /\ UNCHANGED <<last, faulted, space, idx, val, ret, link, setup, mpsse>>

\* The loop body with the capture taken before the stimulus is sent.
TrialStep_capture_first(p) ==
    CASE p = "arm"     -> "capture"
      [] p = "capture" -> "write"
      [] p = "write"   -> "read"
      [] p = "read"    -> "classify"

\* The statement the loop body runs after statement p has returned:
\* scope.arm(); target.write("g\n"); ret = scope.capture();
\* val = target.simpleserial_read_witherrors(...); if ret: ...
TrialStep(p) ==
    CASE p = "arm"     -> "write"
      [] p = "write"   -> "capture"
      [] p = "capture" -> "read"
      [] p = "read"    -> "classify"

\* scope.arm()
TrialArm ==
    /\ pc = "arm"
    /\ \E fail \in HwInputs(ArmInputs(scope), "none"), usbdev \in UsbDevs(scope) :
          DoArm(fail, usbdev)
    /\ pc' = IF last'.res = "raise" THEN "crashed" ELSE TrialStep("arm")
    /\ tlog' = Append(tlog, "scope.arm")
    /\ UNCHANGED <<space, idx, results, val, ret, resets, link, setup, mpsse>>

\* target.write("g\n")
TargetWrite ==
    /\ pc = "write"
    /\ \E ok \in HwInputs(BOOLEAN, TRUE) : pc' = IF ok THEN TrialStep("write") ELSE "crashed"
    /\ tlog' = Append(tlog, "target.write")
    /\ UNCHANGED <<scope, last, faulted, space, idx, results, val, ret, resets, link, setup, mpsse>>

\* ret = scope.capture()
TrialCapture ==
    /\ pc = "capture"
    /\ \E in \in HwInputs(CaptureInputs(scope), <<"done", "exact">>) :
          DoCapture(in[1], in[2])
    /\ pc' = IF last'.res = "raise" THEN "crashed" ELSE TrialStep("capture")
    /\ ret' = IF last'.res = "raise" THEN ret ELSE last'.val
    /\ tlog' = Append(tlog, "scope.capture")
    /\ UNCHANGED <<space, idx, results, val, resets, link, setup, mpsse>>

\* val = target.simpleserial_read_witherrors('r', 4, glitch_timeout=10)
TargetRead ==
    /\ pc = "read"
    /\ \/ \E v \in HwInputs(Responses, FakeResponse(link, glitch_setting)) :
             val' = v /\ pc' = TrialStep("read")
       \/ link = "hardware" /\ val' = val /\ pc' = "crashed"
    /\ tlog' = Append(tlog, "target.read")
    /\ UNCHANGED <<scope, last, faulted, space, idx, results, ret, resets, link, setup, mpsse>>

classification_equal_is_success(r, v) ==
    IF r = "True"             THEN [group |-> "reset",   reboot |-> TRUE,  raises |-> FALSE]
    ELSE IF v = "invalid"     THEN [group |-> "reset",   reboot |-> FALSE, raises |-> FALSE]
    ELSE IF v = "no_payload"  THEN [group |-> "none",    reboot |-> FALSE, raises |-> FALSE]
    ELSE IF v = "bad_length"  THEN [group |-> "none",    reboot |-> FALSE, raises |-> TRUE]
    ELSE IF v = "2500"        THEN [group |-> "success", reboot |-> FALSE, raises |-> FALSE]
    ELSE                           [group |-> "normal",  reboot |-> FALSE, raises |-> FALSE]

classification_response_first(r, v) ==
    IF v = "invalid"          THEN [group |-> "reset",   reboot |-> FALSE, raises |-> FALSE]
    ELSE IF r = "True"        THEN [group |-> "reset",   reboot |-> TRUE,  raises |-> FALSE]
    ELSE IF v = "no_payload"  THEN [group |-> "none",    reboot |-> FALSE, raises |-> FALSE]
    ELSE IF v = "bad_length"  THEN [group |-> "none",    reboot |-> FALSE, raises |-> TRUE]
    ELSE IF v # "2500"        THEN [group |-> "success", reboot |-> FALSE, raises |-> FALSE]
    ELSE                           [group |-> "normal",  reboot |-> FALSE, raises |-> FALSE]

classification_invalid_reboot(r, v) ==
    IF r = "True" \/ v = "invalid"
                              THEN [group |-> "reset",   reboot |-> TRUE,  raises |-> FALSE]
    ELSE IF v = "no_payload"  THEN [group |-> "none",    reboot |-> FALSE, raises |-> FALSE]
    ELSE IF v = "bad_length"  THEN [group |-> "none",    reboot |-> FALSE, raises |-> TRUE]
    ELSE IF v # "2500"        THEN [group |-> "success", reboot |-> FALSE, raises |-> FALSE]
    ELSE                           [group |-> "normal",  reboot |-> FALSE, raises |-> FALSE]

classification_invalid_skipped(r, v) ==
    IF r = "True"             THEN [group |-> "reset",   reboot |-> TRUE,  raises |-> FALSE]
    ELSE IF v \in {"invalid", "no_payload"}
                              THEN [group |-> "none",    reboot |-> FALSE, raises |-> FALSE]
    ELSE IF v = "bad_length"  THEN [group |-> "none",    reboot |-> FALSE, raises |-> TRUE]
    ELSE IF v # "2500"        THEN [group |-> "success", reboot |-> FALSE, raises |-> FALSE]
    ELSE                           [group |-> "normal",  reboot |-> FALSE, raises |-> FALSE]

\* if ret: ... else: ... : the group the trial is added to ("none": no row),
\* whether reboot_flush() is called, and whether the branch raises.
\* struct.unpack("<I", payload) raises struct.error on a payload that is not
\* four bytes long.
classification(r, v) ==
    IF r = "True"             THEN [group |-> "reset",   reboot |-> TRUE,  raises |-> FALSE]
    ELSE IF v = "invalid"     THEN [group |-> "reset",   reboot |-> FALSE, raises |-> FALSE]
    ELSE IF v = "no_payload"  THEN [group |-> "none",    reboot |-> FALSE, raises |-> FALSE]
    ELSE IF v = "bad_length"  THEN [group |-> "none",    reboot |-> FALSE, raises |-> TRUE]
    ELSE IF v # "2500"        THEN [group |-> "success", reboot |-> FALSE, raises |-> FALSE]
    ELSE                           [group |-> "normal",  reboot |-> FALSE, raises |-> FALSE]

\* The classification of the trial, lines 81 to 109.
Classify ==
    /\ pc = "classify"
    /\ LET c == classification(ret, val)
           o == IF c.reboot THEN reboot_flush(scope) ELSE Outcome(scope, "return", "None", <<>>)
       IN  /\ results' = IF c.group = "none" THEN results
                         ELSE gc_add(results, c.group, <<scope.glitch.width, scope.glitch.offset>>)
           /\ scope' = o.s
           /\ resets' = IF c.reboot THEN resets + 1 ELSE resets
           /\ tlog' = tlog \o (IF c.group = "none" THEN <<>> ELSE <<AddCall(c.group)>>) \o o.hw
           /\ pc' = IF c.raises THEN "crashed" ELSE "for"
    /\ UNCHANGED <<last, faulted, space, idx, val, ret, link, setup, mpsse>>

\* disarm_target(): scope.dis(); target.dis().  target.dis() is taken to
\* return: pc = "done" says both calls were made.
Disarm ==
    /\ pc = "disarm"
    /\ \E usbdev \in UsbDevs(scope) : DoDis(usbdev)
    /\ pc' = IF last'.res = "raise" THEN "crashed" ELSE "done"
    /\ UNCHANGED <<space, idx, results, val, ret, resets, tlog, link, setup, mpsse>>

CampaignNext ==
    \/ ForNext \/ PreCheck \/ TrialArm \/ TargetWrite
    \/ TrialCapture \/ TargetRead \/ Classify \/ Disarm

CampaignSpec == CampaignInit /\ [][CampaignNext]_vars

\* The script is one sequential program: it takes its next step as long as it
\* has one.
CampaignFairSpec == CampaignSpec /\ WF_vars(CampaignNext)

\* ------------------------------------------------------------ properties

\* C1: arm() on a session that is not connected fails with the not-connected
\* error, issues no lower-level call and leaves the scope object as it was.
C1_ArmNotConnected ==
    [][ (last'.op = "arm" /\ ~scope.is_connected)
        => /\ last'.res = "raise"
           /\ last'.val = "NotConnected"
           /\ last'.hw = <<>>
           /\ scope' = scope ]_vars

\* C1 witness: arm() was refused on a scope that had been connected and was
\* disconnected again.
C1_Witness ==
    /\ last.op = "arm" /\ last.val = "NotConnected"
    /\ scope.adc # 0 /\ scope.clock # 0 /\ ~scope.ser
    /\ ~scope.is_connected /\ ~scope.connectStatus

\* C2: when a lower-level call of arm() raises, arm() raises that same error
\* and the session is no longer connected; arm() returns only when none raised.
C2_ArmFailureDisconnects ==
    (last.op = "arm" /\ last.val # "NotConnected")
    => IF last.in.fail = "none"
       THEN last.res = "return" /\ last.hw = ArmSteps(scope)
       ELSE /\ last.res = "raise"
            /\ last.val = last.in.fail
            /\ ~scope.is_connected
            /\ last.hw = UpTo(ArmSteps(scope), last.in.fail) \o <<"scopetype.dis">>

\* C2 witness: the read pump failed to start, arm() raised that error and the
\* session was left disconnected.
C2_Witness ==
    /\ last.op = "arm" /\ last.res = "raise" /\ last.val = "startCaptureThread"
    /\ ~scope.is_connected

\* C3 (as claimed): arm() on a session already armed fails with no side
\* effects: no hardware arm command, no read pump, the scope object as it was.
C3_DoubleArmRejected ==
    [][ (last'.op = "arm" /\ scope.is_connected /\ scope.armed)
        => /\ last'.res = "raise"
           /\ last'.hw = <<>>
           /\ scope' = scope ]_vars

\* C4: a capture() whose sc.capture() timed out, or whose read returned a
\* number of points different from the number asked for, returns True, leaves
\* the connection state as it was, and a connected session accepts the next arm().
C4_TimeoutKeepsSession ==
    [][ ( /\ last'.op = "capture"
          /\ last'.hw = <<"sc.capture", "sc.readData">>
          /\ last'.in.rd # "raise"
          /\ (last'.in.a = "timeout" \/ last'.in.rd \in {"short", "long"}) )
        => /\ last'.res = "return" /\ last'.val = "True"
           /\ scope'.is_connected = scope.is_connected
           /\ scope'.is_connected => arm(scope', "none", TRUE).res = "return" ]_vars

\* C4 witness: a capture timed out on a connected session and the session is
\* still connected.
C4_Witness ==
    /\ last.op = "capture" /\ last.in.a = "timeout" /\ last.val = "True"
    /\ scope.is_connected

\* C5 (as claimed): when a lower-level error ends the campaign, the session has
\* been taken out of the connected state and gc's log holds every row it held.
C5_FatalErrorDisconnects ==
    [][ (pc' = "crashed" /\ pc # "crashed")
        => (~scope'.is_connected /\ results' = results) ]_vars

\* C6 (as claimed): after a lower-level error, and until con() returns True,
\* no arm() and no capture() issues a lower-level call.
C6_FaultedBlocksHardware ==
    [][ (faulted /\ last'.op \in {"arm", "capture"}) => last'.hw = <<>> ]_vars

\* C7 (as claimed): capture() on a session that is not armed is rejected
\* without a hardware capture or read, and a capture() that returns leaves the
\* session connected and not armed.
C7_CaptureOnlyWhenArmed ==
    [][ (last'.op = "capture")
        => /\ ~(scope.is_connected /\ scope.armed)
                => (last'.res = "raise" /\ last'.hw = <<>>)
           /\ last'.res = "return"
                => (scope'.is_connected /\ ~scope'.armed) ]_vars

\* The number of points a capture is asked for: adc.samples, times adc.segments
\* on Husky.
Requested(s) ==
    IF s.is_husky THEN s.adc_cfg.samples * s.adc_cfg.segments ELSE s.adc_cfg.samples

C9_ConWhenConnectedRejected ==
    [][ (last'.op = "con" /\ scope.is_connected)
        => /\ last'.res = "raise"
           /\ last'.val = "AlreadyConnected"
           /\ scope' = scope ]_vars

\* C10 (as claimed): dis() completes from every state with the session
\* disconnected, and a second dis() leaves the scope object as the first left it.
C10_DisAlwaysCompletes ==
    [][ (last'.op = "dis")
        => /\ last'.res = "return"
           /\ ~scope'.is_connected
           /\ \A u \in BOOLEAN :
                dis(scope', u).res = "return" /\ dis(scope', u).s = scope' ]_vars

\* The last n calls of the trial log.
LastCalls(log, n) == IF Len(log) < n THEN <<>> ELSE SubSeq(log, Len(log) - n + 1, Len(log))

\* C11: reboot_flush() drives the reset line low, releases it, then flushes the
\* target's buffered I/O, in that order, and changes nothing else: the scope
\* object (its connection state, its settings, its glitch settings) is the same
\* but for io.nrst, and so are gc's ranges and the position in the sweep.
C11_RebootFlushOnlyResets ==
    [][ (resets' = resets + 1)
        => /\ LastCalls(tlog', 3) = <<"io.nrst=False", "io.nrst=high_z", "target.flush">>
           /\ scope' = [scope EXCEPT !.nrst = "high_z"]
           /\ scope'.is_connected = scope.is_connected
           /\ scope'.glitch = scope.glitch
           /\ <<last', faulted', space', idx'>> = <<last, faulted, space, idx>> ]_vars

\* C11 witness: reboot_flush() ran after a failed pre-check on a connected
\* scope whose glitch settings are those of the trial.
C11_Witness ==
    /\ pc = "arm" /\ resets = 1
    /\ LastCalls(tlog, 3) = <<"io.nrst=False", "io.nrst=high_z", "target.flush">>
    /\ scope.is_connected /\ scope.nrst = "high_z"
    /\ <<scope.glitch.width, scope.glitch.offset>> = glitch_setting

\* C12 (as claimed): after two default_setup() calls in a row that both
\* returned, every setting reads back after the second as after the first.
C12_SetupIdempotent ==
    (setup.calls >= 2)
    => /\ setup.second.conf = setup.first.conf
       /\ setup.second.adc = setup.first.adc
       /\ setup.second.glitch = setup.first.glitch
       /\ setup.second.nrst = setup.first.nrst

\* C13 (as claimed): a default_setup() call makes at most 11 reset_dcms()
\* calls, and one that fails fails with the clock-lock error.
C13_FailsWithLockError ==
    /\ setup.resets <= 11
    /\ setup.pc = "raised" => setup.err \in LockErrors

\* C13 (amended): every default_setup() call ends.  It makes at most 11
\* reset_dcms() calls; a pass of the loop that finds the clock locked returns at
\* once; a call that fails fails with the clock-lock error after the 11th
\* reset or, when the device is not a Husky, with the error of the reconnect
\* made after the 5th.
C13_SetupTerminates ==
    /\ [](setup.resets <= 11 /\ setup.count = setup.resets)
    /\ [](setup.pc = "raised"
            => \/ setup.err \in LockErrors /\ setup.resets = 11
               \/ /\ ~scope.is_husky /\ setup.resets = 5
                  /\ setup.err \in ConFails \ {"none"})
    /\ [][ (setup.pc = "loop" /\ setup'.resets = setup.resets)
           => (setup'.pc = "idle" /\ setup'.calls = setup.calls + 1) ]_vars
    /\ (setup.pc = "loop") ~> (setup.pc # "loop")

\* C13 witness: on a device that is not a Husky the clock never locked; the
\* call reconnected after the 5th reset and gave up after the 11th.
C13_Witness ==
    /\ setup.pc = "raised" /\ setup.err = "OSError: Could not lock DCM"
    /\ setup.resets = 11 /\ setup.recon /\ ~scope.is_husky

\* The cardinality of one axis.
AxisCardinality(r) == ((r.high - r.low) \div r.step) + 1

TrialDone == pc = "for" /\ idx >= 1

\* The pre-check of this trial found the trigger line high.
PreCheckFailed == Len(tlog) >= 3 /\ tlog[3] = AddCall("reset")

\* The last row of gc's log is this trial's, in the given group.
Recorded(group) ==
    /\ Len(results) >= 1
    /\ results[Len(results)] = <<group, glitch_setting>>

\* The group a fake Target Link's answer puts a setting in.
FakeGroup(l, setting) ==
    CASE FakeResponse(l, setting) = "2500"    -> "normal"
      [] FakeResponse(l, setting) = "other"   -> "success"
      [] FakeResponse(l, setting) = "invalid" -> "reset"

\* The rows of a campaign on a fake Target Link after n trials.
FakeRows(l, n) ==
    [i \in 1..n |-> <<FakeGroup(l, glitch_values(space)[i]), glitch_values(space)[i]>>]

\* The rows of the given group.
RowsOf(group) == {i \in 1..Len(results) : results[i][1] = group}

\* C15: a trial that passed the pre-check, whose capture did not time out and
\* whose response is valid with a four-byte payload is recorded once, as
\* success when the payload differs from 2500 and as normal when it is 2500;
\* with 2500 on every trial of the 33 all rows are normal, and with another
\* payload at (8, 3) only, that row is the one success among the 33.
C15_SuccessIffPayloadDiffers ==
    /\ (TrialDone /\ ~PreCheckFailed /\ ret = "False" /\ val \in {"2500", "other"})
          => /\ Recorded(IF val = "2500" THEN "normal" ELSE "success")
             /\ LastCalls(tlog, 2) = <<"target.read", AddCall(results[Len(results)][1])>>
             /\ resets = 0
    /\ (link \in {"fake_2500", "fake_one_other"} /\ pc \in {"for", "disarm", "done"})
          => results = FakeRows(link, idx)
    /\ (link \in {"fake_2500", "fake_one_other"} /\ space = ScriptSpace /\ pc = "done")
          => /\ Len(results) = 33
             /\ RowsOf("reset") = {}
             /\ RowsOf("success") = IF link = "fake_2500" THEN {} ELSE {15}

\* C15 witness: the campaign of 33 trials with another payload at (8, 3) only
\* has ended; row 15, of (8, 3), is the success and 32 rows are normal.
C15_Witness ==
    /\ link = "fake_one_other" /\ space = ScriptSpace /\ pc = "done"
    /\ results[15] = <<"success", <<8, 3>>>>
    /\ Cardinality(RowsOf("normal")) = 32

\* C16 (as claimed): after a failed pre-check the trial has its reset row and
\* its reboot_flush(), and no arm, no stimulus and no capture.
C16_PreCheckSkipsTrial ==
    PreCheckFailed
    => /\ resets >= 1
       /\ \A i \in 1..Len(tlog) :
             tlog[i] \notin {"scope.arm", "target.write", "scope.capture"}

\* C17: a trial whose capture() returned True is recorded as reset, whatever
\* the target answered, and reboot_flush() runs after the capture and the read,
\* before the loop takes the next setting.
C17_TimeoutIsReset ==
    (TrialDone /\ ret = "True")
    => /\ Recorded("reset")
       /\ LastCalls(tlog, 6) = <<"scope.capture", "target.read", AddCall("reset"),
                                 "io.nrst=False", "io.nrst=high_z", "target.flush">>
       /\ resets = IF PreCheckFailed THEN 2 ELSE 1

\* C17 witness: the capture timed out, the target answered 2500 all the same,
\* and the trial is a reset row followed by one reboot_flush().
C17_Witness ==
    /\ TrialDone /\ ret = "True" /\ val = "2500"
    /\ last.op = "capture" /\ last.in.a = "timeout"
    /\ Recorded("reset") /\ resets = 1 /\ scope.nrst = "high_z"

\* C18: a trial whose capture() returned False and whose response is not
\* valid is recorded as reset with no reboot_flush() after the capture, and the
\* loop goes on.
C18_InvalidIsResetNoRecovery ==
    (idx >= 1 /\ ret = "False" /\ val = "invalid" /\ pc # "classify")
    => /\ pc \in {"for", "disarm", "done"}
       /\ Recorded("reset")
       /\ LastCalls(tlog, 3) = <<"scope.capture", "target.read", AddCall("reset")>>
       /\ resets = IF PreCheckFailed THEN 1 ELSE 0

\* C18 witness: an invalid response after a good capture gave a reset row
\* and no reboot_flush(), and the sweep has a next setting to take.
C18_Witness ==
    /\ TrialDone /\ ret = "False" /\ val = "invalid" /\ link = "hardware"
    /\ Recorded("reset") /\ resets = 0
    /\ idx < Len(glitch_values(space))

\* C19 (as claimed): a trial on which the Target Link timed out is recorded as
\* reset and has exactly one reboot_flush().
C19_LinkTimeoutOneReset ==
    (TrialDone /\ val = "invalid") => (Recorded("reset") /\ resets = 1)

\* C19 (amended): a trial on which the Target Link timed out is recorded as
\* reset; its reboot_flush() calls are the one of a failed pre-check and the
\* one of a capture timeout, none for the Target Link's timeout.  With a Target
\* Link that times out on the trials with offset > 5 only, those trials are the
\* reset rows and none of them has a reboot_flush().
C19_LinkTimeoutIsReset ==
    /\ (TrialDone /\ val = "invalid")
          => /\ Recorded("reset")
             /\ resets = (IF PreCheckFailed THEN 1 ELSE 0) + (IF ret = "True" THEN 1 ELSE 0)
    /\ (link = "fake_timeout" /\ TrialDone)
          => /\ val = "invalid" <=> glitch_setting[2] > 5
             /\ resets = 0
             /\ results = FakeRows(link, idx)
             /\ RowsOf("reset") = {i \in 1..idx : glitch_values(space)[i][2] > 5}

\* C19 witness: the campaign of 33 trials whose Target Link times out for
\* offset > 5 is at the end of its last trial: 15 reset rows, no reboot_flush().
C19_Witness ==
    /\ link = "fake_timeout" /\ space = ScriptSpace /\ TrialDone /\ idx = 33
    /\ val = "invalid" /\ resets = 0
    /\ Cardinality(RowsOf("reset")) = 15 /\ Cardinality(RowsOf("normal")) = 18

\* C20 (as claimed): a trial whose capture() returned False and whose response
\* is valid with no payload, or with a payload of another length, adds no row,
\* calls no reboot_flush(), raises nothing, and the loop goes on.
C20_BadPayloadSkipped ==
    (idx >= 1 /\ ret = "False" /\ val \in {"no_payload", "bad_length"} /\ pc # "classify")
    => /\ pc \in {"for", "disarm", "done"}
       /\ LastCalls(tlog, 1) = <<"target.read">>

\* ------------------------------------------------------------ C21 .. C27

\* The positions of a call in the log of the current trial.
CallAt(call) == {i \in 1..Len(tlog) : tlog[i] = call}

GenerationIndex(setting) ==
    CHOOSE i \in 1..Len(glitch_values(space)) : glitch_values(space)[i] = setting

\* C22 (as claimed): gc's log is append-only with one row per trial: it holds
\* at most one row for each setting of the sweep, the rows are in generation
\* order, and a row once added is never changed or removed.
C22_AppendOnlyOneRowPerTrial ==
    /\ [](\A i, j \in 1..Len(results) :
            i < j => GenerationIndex(results[i][2]) < GenerationIndex(results[j][2]))
    /\ [][ /\ Len(results') >= Len(results)
           /\ SubSeq(results', 1, Len(results)) = results ]_vars

\* The campaign stopped on an error of the transport: a call on the scope or
\* on the target raised.
TransportFatal == pc = "crashed" /\ val # "bad_length"

\* Every setting of the sweep had its trial and disarm_target() returned:
\* scope.dis() and target.dis() were both made.
CampaignCompleted ==
    /\ pc = "done"
    /\ idx = Len(glitch_values(space))
    /\ ~scope.is_connected

\* C23 (as claimed): no non-fatal failure of a trial aborts the campaign: as
\* long as no transport-fatal error occurs, the campaign eventually has
\* processed every setting of the sweep, terminated and disconnected the scope
\* and the target.
C23_CampaignCompletes == ([]~TransportFatal) => <>CampaignCompleted

\* C24 (as claimed): the read pump started by arm() lives within one capture:
\* at most one pump exists at any time, none is left once the next capture()
\* has ended, whether it returned, rejected its parameters or raised, and none
\* runs while the session is disconnected or after the campaign has ended.
C24_PumpWithinOneCapture ==
    /\ scope.pumps <= 1
    /\ last.op = "capture" => scope.pumps = 0
    /\ ~scope.is_connected => scope.pumps = 0
    /\ pc \in {"done", "crashed"} => scope.pumps = 0

\* C25 (as claimed): the session reports connected only if the most recent
\* con() ran to completion and no dis() came after it: a con() that raised
\* leaves it not connected whatever the state it was called from, a dis()
\* leaves it not connected, and only a con() that returns makes it connected.
C25_ConnectedOnlyAfterCompleteCon ==
    [][ /\ (last'.op = "con" /\ last'.res = "raise") => ~scope'.is_connected
        /\ last'.op = "dis" => ~scope'.is_connected
        /\ (~scope.is_connected /\ scope'.is_connected)
              => (last'.op = "con" /\ last'.res = "return") ]_vars

\* C26 (as claimed): whenever default_setup() has returned normally on a
\* device that is not a Husky, the session is connected and every setting of
\* the baseline table reads back its baseline value, also after the
\* disconnect, reconnect and re-apply of the fifth failed lock.
C26_BaselineOnReturn ==
    (setup.pc = "idle" /\ setup.calls >= 1 /\ ~scope.is_husky)
      => /\ scope.is_connected
         /\ scope.adc_cfg.samples = 5000
         /\ scope.conf.gain_db = "25"
         /\ scope.conf.adc_offset = "0"
         /\ scope.conf.basic_mode = "rising_edge"
         /\ scope.conf.clkgen_freq = "7.37e6"
         /\ scope.conf.triggers = "tio4"
         /\ scope.conf.tio1 = "serial_rx"
         /\ scope.conf.tio2 = "serial_tx"
         /\ scope.conf.hs2 = "clkgen"
         /\ scope.conf.cdc_settings = "0"
         /\ scope.conf.adc_src = "clkgen_x4"

\* enable_MPSSE() has ended, by returning or by raising.
MpsseEnded == mpsse.pc \in {"returned", "raised"}

====
